---- MODULE Spec2Model ----
(***************************************************************************)
(* Model of the health-monitor blood-test application: the entry form      *)
(* (src/app/gui/input_form.py), the basic analysis                          *)
(* (src/app/utils/analysis_service.py), the on-screen results view          *)
(* (src/app/gui/results_view.py), the PDF report                            *)
(* (src/app/utils/pdf_generator.py), the AI analysis                        *)
(* (src/app/model/llama_wrapper.py) and the main window that wires them     *)
(* (src/app/gui/main_window.py).                                            *)
(*                                                                         *)
(* Python values are tagged records [k, n]:                                 *)
(*   k = "num"    a finite float, n its value (the catalog's integer        *)
(*                ranges and integer readings, which float arithmetic       *)
(*                handles exactly)                                          *)
(*   k = "nan" / "inf" / "ninf"   the non-finite floats                     *)
(*   k = "str"    a text that float() rejects                               *)
(*   k = "none"   Python's None                                             *)
(*   k = "absent" the key is missing from the dictionary                    *)
(***************************************************************************)
EXTENDS Integers, Sequences, FiniteSets, TLC

\* ------------------------------------------------------------ bounds

\* Most entries in one submitted batch of the analysis pipeline.
MaxEntries == 2

\* Most submissions in one session of the application.
MaxSubmissions == 2

\* Most entries in a batch whose order of display is explored.
MaxListed == 3

\* ------------------------------------------------------------ state

VARIABLES
  BLOOD_PARAMETERS,  \* the catalog: name -> [group, ranges, clinical_info]
  form,              \* InputForm: the required fields, the entry texts, the AI box
  warning,           \* the message box on_submit showed last ("" for none)
  data,              \* the dictionary handed to MainWindow.update_results
  delivered,         \* update_results has run on data
  error_box,         \* update_results showed "Analysis Error"
  current_data,      \* ResultsView.current_data (has = FALSE for None)
  screen,            \* the rendered results: table rows, attention list, AI section
  report,            \* the outcome of the last generate_report
  model_loaded,      \* AnalysisService.model_loaded
  wrapper,           \* LlamaWrapper: model and tokenizer are set
  model_cache,       \* LlamaWrapper._model_cache and _tokenizer_cache are set
  threads,           \* the ModelLoadThread objects created, oldest first
  queued,            \* the threads whose finished signal waits for its slot
  ai_progress,       \* MainWindow.ai_progress: "none", "shown" or "cancelled"
  ai_notice,         \* the "AI Analysis Limited" box was shown
  calls,             \* the calls of get_basic_analysis: input and result
  loads,             \* how often from_pretrained has returned the model
  budget             \* submissions the session still explores

vars == << BLOOD_PARAMETERS, form, warning, data, delivered, error_box,
           current_data, screen, report, model_loaded, wrapper, model_cache,
           threads, queued, ai_progress, ai_notice, calls, loads, budget >>

\* The state of the AI model, and the rest of the AI analysis.
model_vars == << model_loaded, wrapper, model_cache, loads >>

ai_vars == << threads, queued, ai_progress, ai_notice >>

\* ------------------------------------------------------------ values

Num(n) == [k |-> "num", n |-> n]
NaN == [k |-> "nan", n |-> 0]
PosInf == [k |-> "inf", n |-> 0]
NegInf == [k |-> "ninf", n |-> 0]
BadText == [k |-> "str", n |-> 0]
None == [k |-> "none", n |-> 0]
Absent == [k |-> "absent", n |-> 0]

\* A Python float (float(value) succeeds and returns the value itself).
IsFloat(v) == v.k \in {"num", "nan", "inf", "ninf"}

\* Python truthiness of a range bound: None and 0 are falsy.
Truthy(b) == b.k = "num" /\ b.n # 0

\* value < bound and value > bound for a float value and a finite bound
\* (every comparison with nan is False).
PyLt(v, b) ==
  CASE v.k = "num" -> v.n < b.n
    [] v.k = "ninf" -> TRUE
    [] OTHER -> FALSE

PyGt(v, b) ==
  CASE v.k = "num" -> v.n > b.n
    [] v.k = "inf" -> TRUE
    [] OTHER -> FALSE

\* ((min_val - value) / min_val) * 100 > 20, for value < min_val and
\* min_val # 0.  The quotient exceeds 0.2 exactly when the cross-multiplied
\* difference does; an infinite difference gives +inf or -inf by the sign
\* of the bound.
LowDeviationOver20(v, mn) ==
  IF v.k = "num"
    THEN (IF mn.n > 0 THEN (mn.n - v.n) * 100 > 20 * mn.n
                      ELSE (mn.n - v.n) * 100 < 20 * mn.n)
    ELSE mn.n > 0

\* ((value - max_val) / max_val) * 100 > 20, for value > max_val and
\* max_val # 0.
HighDeviationOver20(v, mx) ==
  IF v.k = "num"
    THEN (IF mx.n > 0 THEN (v.n - mx.n) * 100 > 20 * mx.n
                      ELSE (v.n - mx.n) * 100 < 20 * mx.n)
    ELSE mx.n > 0

\* ------------------------------------------------------------ catalog

\* The category of each catalog parameter (BLOOD_PARAMETERS).
GroupOf(name) ==
  CASE name \in {"RBC", "WBC", "Hemoglobin", "Hematocrit", "Platelets"} -> "CBC"
    [] name \in {"Glucose", "Calcium"} -> "Basic Metabolic"
    [] name \in {"Total Cholesterol", "HDL", "LDL"} -> "Lipid Panel"
    [] OTHER -> "Vitamins & Minerals"

\* Python's string order on the category names (sorted(grouped_params.keys())).
GroupRank(g) ==
  CASE g = "Basic Metabolic" -> 1
    [] g = "CBC" -> 2
    [] g = "Lipid Panel" -> 3
    [] OTHER -> 4

\* Python's string order on the parameter names (sorted(grouped_params[group])).
NameRank(name) ==
  CASE name = "Calcium" -> 1
    [] name = "Glucose" -> 2
    [] name = "HDL" -> 3
    [] name = "Hematocrit" -> 4
    [] name = "Hemoglobin" -> 5
    [] name = "Iron" -> 6
    [] name = "LDL" -> 7
    [] name = "Platelets" -> 8
    [] name = "RBC" -> 9
    [] name = "Total Cholesterol" -> 10
    [] name = "Vitamin B12" -> 11
    [] name = "Vitamin D" -> 12
    [] OTHER -> 13

\* ------------------------------------------------------------ classifier

Status(s, c) == [status |-> s, color |-> c]

\* The classifier with the severity threshold taken as >= 20.
get_status_and_color_ge(value, range_vals) ==
  IF range_vals.min.k = "none" \/ range_vals.max.k = "none"
    THEN Status("No range", "#808080")
  ELSE IF ~IsFloat(value)
    THEN Status("Error", "#808080")
  ELSE IF PyLt(value, range_vals.min)
    THEN (IF range_vals.min.n = 0
            THEN Status("Error", "#808080")
          ELSE IF value.k # "num"
                  \/ (range_vals.min.n - value.n) * 100 >= 20 * range_vals.min.n
            THEN Status("Very Low", "#FF0000")
          ELSE Status("Low", "#FFA500"))
  ELSE IF PyGt(value, range_vals.max)
    THEN (IF range_vals.max.n = 0
            THEN Status("Error", "#808080")
          ELSE IF value.k # "num"
                  \/ (value.n - range_vals.max.n) * 100 >= 20 * range_vals.max.n
            THEN Status("Very High", "#FF0000")
          ELSE Status("High", "#FFA500"))
  ELSE Status("Normal", "#008000")

\* The classifier with the bounds taken as exclusive (<= and >=).
get_status_and_color_open(value, range_vals) ==
  IF range_vals.min.k = "none" \/ range_vals.max.k = "none"
    THEN Status("No range", "#808080")
  ELSE IF ~IsFloat(value)
    THEN Status("Error", "#808080")
  ELSE IF PyLt(value, range_vals.min) \/ value = range_vals.min
    THEN (IF range_vals.min.n = 0
            THEN Status("Error", "#808080")
          ELSE IF LowDeviationOver20(value, range_vals.min)
            THEN Status("Very Low", "#FF0000")
          ELSE Status("Low", "#FFA500"))
  ELSE IF PyGt(value, range_vals.max) \/ value = range_vals.max
    THEN (IF range_vals.max.n = 0
            THEN Status("Error", "#808080")
          ELSE IF HighDeviationOver20(value, range_vals.max)
            THEN Status("Very High", "#FF0000")
          ELSE Status("High", "#FFA500"))
  ELSE Status("Normal", "#008000")

\* ResultsView._get_status_and_color: value is what the caller passes,
\* range_vals the entry's 'range' pair.  Anything raised inside (a
\* TypeError of the comparison, a ZeroDivisionError of the deviation) is
\* caught and reported as "Error".
get_status_and_color(value, range_vals) ==
  IF range_vals.min.k = "none" \/ range_vals.max.k = "none"
    THEN Status("No range", "#808080")
  ELSE IF ~IsFloat(value)
    THEN Status("Error", "#808080")
  ELSE IF PyLt(value, range_vals.min)
    THEN (IF range_vals.min.n = 0
            THEN Status("Error", "#808080")
          ELSE IF LowDeviationOver20(value, range_vals.min)
            THEN Status("Very Low", "#FF0000")
          ELSE Status("Low", "#FFA500"))
  ELSE IF PyGt(value, range_vals.max)
    THEN (IF range_vals.max.n = 0
            THEN Status("Error", "#808080")
          ELSE IF HighDeviationOver20(value, range_vals.max)
            THEN Status("Very High", "#FF0000")
          ELSE Status("High", "#FFA500"))
  ELSE Status("Normal", "#008000")

\* The status cell of one row of ResultsView._add_blood_parameters:
\* a missing value is "No data", a value float() rejects is "Error".
RowStatus(param) ==
  IF param.value.k = "absent"
    THEN Status("No data", "#808080")
  ELSE IF ~IsFloat(param.value)
    THEN Status("Error", "#808080")
  ELSE get_status_and_color(param.value, param.range)

\* The rows of the on-screen table and of the PDF table: grouped by
\* category, categories in sorted order, names in sorted order within one.
SortKey(param) == GroupRank(param.group) * 100 + NameRank(param.name)

RECURSIVE SortedBy(_)
SortedBy(S) ==
  IF S = {} THEN << >>
  ELSE LET first == CHOOSE x \in S : \A y \in S : SortKey(x) <= SortKey(y)
       IN  << first >> \o SortedBy(S \ {first})

SortedParams(parameters) ==
  SortedBy({parameters[i] : i \in DOMAIN parameters})

\* The rows in the order of the dictionary.
add_blood_parameters_unsorted(parameters) ==
  [i \in DOMAIN parameters |->
     [name |-> parameters[i].name, status |-> RowStatus(parameters[i]).status]]

\* ResultsView._add_blood_parameters: one row per entry, with its status.
add_blood_parameters(parameters) ==
  LET sorted == SortedParams(parameters)
  IN  [i \in DOMAIN sorted |->
         [name |-> sorted[i].name, status |-> RowStatus(sorted[i]).status]]

\* ResultsView._add_attention_section: the entries listed under
\* "Values Requiring Attention", in the order of the dictionary.
NeedsAttention(param) ==
  /\ IsFloat(param.value)
  /\ get_status_and_color(param.value, param.range).status
       \notin {"Normal", "No data", "Error"}

add_attention_section(parameters) ==
  LET listed == SelectSeq(parameters, NeedsAttention)
  IN  [i \in DOMAIN listed |->
         [name |-> listed[i].name,
          status |-> get_status_and_color(listed[i].value, listed[i].range).status]]

\* ------------------------------------------------------------ basic analysis

\* The 'deviation' stored with an abnormal parameter: the quotient
\* num / den (times 100 already in num), or an infinity.
Deviation(diff, bound) ==
  IF diff.k = "num"
    THEN [k |-> "ratio", num |-> diff.n * 100, den |-> bound.n]
    ELSE [k |-> (IF bound.n > 0 THEN "inf" ELSE "ninf"), num |-> 0, den |-> 1]

\* p["deviation"] > 20
DeviationOver20(d) ==
  CASE d.k = "ratio" -> (IF d.den > 0 THEN d.num > 20 * d.den
                                      ELSE d.num < 20 * d.den)
    [] d.k = "inf" -> TRUE
    [] OTHER -> FALSE

\* The entry is compared with its range: both bounds are truthy.
RangeUsable(param) == Truthy(param.range.min) /\ Truthy(param.range.max)

\* value < min_val raises TypeError for a value that is not a number
\* (a text, or the None that data.get('value') gives for a missing key).
ComparisonRaises(param) == RangeUsable(param) /\ ~IsFloat(param.value)

IsLow(param) == RangeUsable(param) /\ PyLt(param.value, param.range.min)

IsHigh(param) ==
  RangeUsable(param) /\ ~PyLt(param.value, param.range.min)
    /\ PyGt(param.value, param.range.max)

AbnormalRecord(param) ==
  IF IsLow(param)
    THEN [name |-> param.name, value |-> param.value, status |-> "low",
          deviation |-> Deviation(
             IF param.value.k = "num"
               THEN Num(param.range.min.n - param.value.n) ELSE PosInf,
             param.range.min)]
    ELSE [name |-> param.name, value |-> param.value, status |-> "high",
          deviation |-> Deviation(
             IF param.value.k = "num"
               THEN Num(param.value.n - param.range.max.n) ELSE PosInf,
             param.range.max)]

IsAbnormal(param) == IsLow(param) \/ IsHigh(param)

\* AnalysisService._perform_basic_analysis.  raised = TRUE: the loop was
\* left by an exception and nothing is returned.
perform_basic_analysis(blood_parameters) ==
  IF \E i \in DOMAIN blood_parameters : ComparisonRaises(blood_parameters[i])
    THEN [raised |-> TRUE, abnormal_count |-> 0,
          abnormal_parameters |-> << >>, critical_count |-> 0]
    ELSE LET abnormal == SelectSeq(blood_parameters, IsAbnormal)
             abnormal_parameters ==
               [i \in DOMAIN abnormal |-> AbnormalRecord(abnormal[i])]
         IN  [raised |-> FALSE,
              abnormal_count |-> Len(abnormal_parameters),
              abnormal_parameters |-> abnormal_parameters,
              critical_count |->
                Cardinality({i \in DOMAIN abnormal_parameters :
                   DeviationOver20(abnormal_parameters[i].deviation)})]

\* get_basic_analysis keeping the abnormal parameters of the analysis on
\* display in front of the new ones.
get_basic_analysis_accumulating(d) ==
  LET basic_analysis == perform_basic_analysis(d.blood_parameters)
      kept == current_data.basic_analysis.abnormal_parameters
  IN  [raised |-> basic_analysis.raised,
       patient |-> d.patient,
       test |-> d.test,
       blood_parameters |-> d.blood_parameters,
       basic_analysis |->
         [basic_analysis EXCEPT !.abnormal_parameters = kept \o @,
                                !.abnormal_count = Len(kept) + @]]

\* AnalysisService.get_basic_analysis: the submitted data with the basic
\* analysis added; an exception of the analysis passes through.
get_basic_analysis(d) ==
  LET basic_analysis == perform_basic_analysis(d.blood_parameters)
  IN  [raised |-> basic_analysis.raised,
       patient |-> d.patient,
       test |-> d.test,
       blood_parameters |-> d.blood_parameters,
       basic_analysis |-> basic_analysis]

\* ------------------------------------------------------------ PDF report

\* What the save dialog can return: "" when it is cancelled.
FileNames == {"", "report", "report.pdf"}

\* filename.endswith(".pdf"), and the name with the suffix appended.
EndsWithPdf(filename) == filename = "report.pdf"

WithPdfSuffix(filename) ==
  IF EndsWithPdf(filename) THEN filename ELSE "report.pdf"

BothBounds(param) == param.range.min.k # "none" /\ param.range.max.k # "none"

\* The deviation of a report status divides by a zero bound:
\* ZeroDivisionError, which the inner except (ValueError, TypeError)
\* does not catch.
PdfDivisionByZero(param) ==
  /\ IsFloat(param.value)
  /\ BothBounds(param)
  /\ \/ PyLt(param.value, param.range.min) /\ param.range.min.n = 0
     \/ /\ ~PyLt(param.value, param.range.min)
        /\ PyGt(param.value, param.range.max)
        /\ param.range.max.n = 0

\* The entries of the report's "Values Requiring Attention" section.
PdfAbnormal(param) ==
  /\ IsFloat(param.value)
  /\ BothBounds(param)
  /\ PyLt(param.value, param.range.min) \/ PyGt(param.value, param.range.max)

\* The status written in the report for an entry (parameter table and
\* attention section use the same computation).
PdfStatus(param) ==
  IF param.value.k = "absent" THEN "No data"
  ELSE IF ~IsFloat(param.value) THEN "Error"
  ELSE IF ~BothBounds(param) THEN "No range"
  ELSE IF PyLt(param.value, param.range.min)
    THEN (IF LowDeviationOver20(param.value, param.range.min)
            THEN "Very Low" ELSE "Low")
  ELSE IF PyGt(param.value, param.range.max)
    THEN (IF HighDeviationOver20(param.value, param.range.max)
            THEN "Very High" ELSE "High")
  ELSE "Normal"

\* The "AI Analysis & Recommendations" section of the report: the data
\* holds an 'ai_analysis' with content under one of the section keys (a
\* key of the model's AI results always comes with content: the
\* structured response falls back to a summary, and the dictionary of
\* get_ai_analysis's except branch carries one).
PdfAiSection(d) ==
  /\ d.ai_analysis.has
  /\ d.ai_analysis.keys \cap
       {"summary", "abnormal_values", "implications", "recommendations",
        "followup_tests"} # {}

\* generate_report returned False: error is the exception the outer
\* handler printed, "" when the dialog was cancelled.
NoReport(chosen, filename, error) ==
  [success |-> FALSE, chosen |-> chosen, filename |-> filename,
   built |-> FALSE, error |-> error, attention |-> << >>, rows |-> << >>,
   ai_section |-> FALSE]

\* generate_report answering True although doc.build raised.
generate_report_unguarded(d, chosen, build_ok) ==
  IF chosen = "" THEN NoReport(chosen, chosen, "")
  ELSE LET filename == WithPdfSuffix(chosen)
           parameters == d.blood_parameters
           abnormal == SelectSeq(parameters, PdfAbnormal)
           sorted == SortedParams(parameters)
       IN  IF \E i \in DOMAIN parameters : PdfDivisionByZero(parameters[i])
             THEN NoReport(chosen, filename, "float division by zero")
             ELSE [success |-> TRUE, chosen |-> chosen, filename |-> filename,
                   built |-> build_ok,
                   error |-> IF build_ok THEN "" ELSE "build failed",
                   ai_section |-> PdfAiSection(d),
                   attention |->
                     [i \in DOMAIN abnormal |->
                        [name |-> abnormal[i].name,
                         status |-> PdfStatus(abnormal[i])]],
                   rows |->
                     [i \in DOMAIN sorted |->
                        [name |-> sorted[i].name,
                         status |-> PdfStatus(sorted[i])]]]

\* PDFGenerator.generate_report(data) with the file name the dialog
\* returned; build_ok tells whether doc.build could write the file.
generate_report(d, chosen, build_ok) ==
  IF chosen = "" THEN NoReport(chosen, chosen, "")
  ELSE LET filename == WithPdfSuffix(chosen)
           parameters == d.blood_parameters
           abnormal == SelectSeq(parameters, PdfAbnormal)
           sorted == SortedParams(parameters)
       IN  IF \E i \in DOMAIN parameters : PdfDivisionByZero(parameters[i])
             THEN NoReport(chosen, filename, "float division by zero")
           ELSE IF ~build_ok
             THEN NoReport(chosen, filename, "build failed")
             ELSE [success |-> TRUE, chosen |-> chosen, filename |-> filename,
                   built |-> TRUE, error |-> "",
                   ai_section |-> PdfAiSection(d),
                   attention |->
                     [i \in DOMAIN abnormal |->
                        [name |-> abnormal[i].name,
                         status |-> PdfStatus(abnormal[i])]],
                   rows |->
                     [i \in DOMAIN sorted |->
                        [name |-> sorted[i].name,
                         status |-> PdfStatus(sorted[i])]]]

\* ------------------------------------------------------------ range tables

Bounds(mn, mx) == [min |-> Num(mn), max |-> Num(mx)]
NoBounds == [min |-> None, max |-> None]

\* An entry of a range table, or its absence.
Has(range) == [has |-> TRUE, range |-> range]
Missing == [has |-> FALSE, range |-> NoBounds]

NoGenderTable == [has |-> FALSE, male |-> Missing, female |-> Missing]
NoAgeTable == [has |-> FALSE, table |-> << >>]
NoBase == [kind |-> "absent", male |-> Missing, female |-> Missing]

\* GLUCOSE_PARAMETER['ranges']
GlucoseRanges ==
  [standard |-> Has(Bounds(70, 100)),
   gender_specific |->
     [has |-> TRUE, male |-> Has(Bounds(70, 100)), female |-> Has(Bounds(70, 100))],
   age_specific |->
     [has |-> TRUE,
      table |-> [b \in {"newborn", "child", "adult", "elderly"} |->
                   CASE b = "newborn" -> Bounds(40, 90)
                     [] b = "child" -> Bounds(60, 100)
                     [] OTHER -> Bounds(70, 100)]],
   base |-> NoBase]

\* LDL_PARAMETER['ranges']
LdlRanges ==
  [standard |-> Has(Bounds(0, 100)),
   gender_specific |-> NoGenderTable,
   age_specific |->
     [has |-> TRUE,
      table |-> [b \in {"child", "adolescent", "adult", "elderly"} |->
                   CASE b \in {"child", "adolescent"} -> Bounds(0, 110)
                     [] OTHER -> Bounds(0, 100)]],
   base |-> NoBase]

\* IRON_PARAMETER['ranges']
IronStandard == Has(Bounds(60, 170))

IronGender ==
  [has |-> TRUE, male |-> Has(Bounds(65, 175)), female |-> Has(Bounds(50, 170))]

IronAge ==
  [has |-> TRUE,
   table |-> [b \in {"infant", "child", "adolescent_male", "adolescent_female",
                     "adult_male", "adult_female", "elderly"} |->
                CASE b = "infant" -> Bounds(40, 100)
                  [] b = "child" -> Bounds(50, 120)
                  [] b \in {"adolescent_male", "adult_male"} -> Bounds(65, 175)
                  [] b \in {"adolescent_female", "adult_female"} -> Bounds(50, 170)
                  [] OTHER -> Bounds(50, 150)]]

IronRanges ==
  [standard |-> IronStandard, gender_specific |-> IronGender,
   age_specific |-> IronAge, base |-> NoBase]

\* The definitions the resolver is exercised on: Iron's tables with any
\* of the range sources on_submit probes for present or not, a
\* gender-keyed table holding both genders or one, and a 'base' source
\* that is a gender-keyed table, an empty table or not a table.
GenderTables ==
  {NoGenderTable, IronGender,
   [has |-> TRUE, male |-> Missing, female |-> Has(Bounds(50, 170))]}

BaseSources ==
  {NoBase,
   [kind |-> "scalar", male |-> Missing, female |-> Missing],
   [kind |-> "table", male |-> Missing, female |-> Missing],
   [kind |-> "table", male |-> Missing, female |-> Has(Bounds(50, 170))],
   [kind |-> "table", male |-> Has(Bounds(65, 175)), female |-> Has(Bounds(50, 170))]}

RangeShapes ==
  [standard : {Missing, IronStandard},
   gender_specific : GenderTables,
   age_specific : {NoAgeTable, IronAge},
   base : BaseSources]

\* ------------------------------------------------------------ resolver

\* gender in table, and table[gender], for a gender-keyed table.
InTable(table, gender) ==
  CASE gender = "male" -> table.male.has
    [] gender = "female" -> table.female.has
    [] OTHER -> FALSE

Lookup(table, gender) ==
  IF gender = "male" THEN table.male.range ELSE table.female.range

Resolved(range) == [raised |-> FALSE, range |-> range]

\* The range selection without its 'standard' branch.
resolve_range_no_standard(ranges, gender) ==
  IF ranges.gender_specific.has /\ InTable(ranges.gender_specific, gender)
    THEN Resolved(Lookup(ranges.gender_specific, gender))
  ELSE IF ranges.base.kind = "table" /\ InTable(ranges.base, gender)
    THEN Resolved(Lookup(ranges.base, gender))
  ELSE Resolved(NoBounds)

\* The range selection of InputForm.on_submit for one parameter: the
\* 'standard' source first, then 'gender_specific' by the lower-cased
\* gender, then 'base'.  raised = TRUE: next(iter(...)) on an empty
\* 'base' table raises StopIteration.
resolve_range(ranges, gender) ==
  IF ranges.standard.has
    THEN Resolved(ranges.standard.range)
  ELSE IF ranges.gender_specific.has /\ InTable(ranges.gender_specific, gender)
    THEN Resolved(Lookup(ranges.gender_specific, gender))
  ELSE IF ranges.base.kind # "absent"
    THEN (IF ranges.base.kind = "table"
            THEN (IF InTable(ranges.base, gender)
                    THEN Resolved(Lookup(ranges.base, gender))
                  ELSE IF ranges.base.male.has
                    THEN Resolved(ranges.base.male.range)
                  ELSE IF ranges.base.female.has
                    THEN Resolved(ranges.base.female.range)
                  ELSE [raised |-> TRUE, range |-> NoBounds])
            ELSE Resolved(NoBounds))
  ELSE Resolved(NoBounds)

\* ------------------------------------------------------------ entry form

\* The catalog parameters of the model, in the order of BLOOD_PARAMETERS
\* (the order of BloodParametersSection.parameter_inputs).
FormParams == << "Glucose", "LDL", "Iron" >>

FormNames == {FormParams[i] : i \in DOMAIN FormParams}

\* text.strip() and float(text) on the texts typed into an entry field;
\* float() of anything else raises ValueError (BadText).
Strip(text) ==
  CASE text = " " -> ""
    [] text = " 85 " -> "85"
    [] OTHER -> text

PyFloat(text) ==
  CASE text = "85" -> Num(85)
    [] text = "-1" -> Num(0 - 1)
    [] text = "150" -> Num(150)
    [] text = "nan" -> NaN
    [] text = "inf" -> PosInf
    [] OTHER -> BadText

\* BloodParametersSection.get_values: the parsed value of every field
\* that is non-empty after strip() and that float() accepts.
\* get_values reading the text of a field without strip().
Entered_unstripped(inputs, name) ==
  inputs[name] # "" /\ IsFloat(PyFloat(inputs[name]))

Entered(inputs, name) ==
  Strip(inputs[name]) # "" /\ IsFloat(PyFloat(Strip(inputs[name])))

RECURSIVE get_values_from(_, _)
get_values_from(inputs, i) ==
  IF i > Len(FormParams) THEN << >>
  ELSE (IF Entered(inputs, FormParams[i])
          THEN << [name |-> FormParams[i],
                   value |-> PyFloat(Strip(inputs[FormParams[i]]))] >>
          ELSE << >>)
       \o get_values_from(inputs, i + 1)

get_values(inputs) == get_values_from(inputs, 1)

\* InputForm._validate_required_fields
\* _validate_required_fields without the check of the age.
validate_required_fields_ageless(f) ==
  /\ f.first_name # ""
  /\ f.last_name # ""
  /\ f.gender # "Select Gender"

validate_required_fields(f) ==
  /\ f.first_name # ""
  /\ f.last_name # ""
  /\ f.gender # "Select Gender"
  /\ f.age # 0

\* currentText().lower()
Lower(gender) ==
  CASE gender = "Male" -> "male"
    [] gender = "Female" -> "female"
    [] OTHER -> "select gender"

NoPatient == [first_name |-> "", last_name |-> "", gender |-> "Select Gender", age |-> 0]

\* data['test']: the date and the laboratory, which nothing in the
\* analysis reads.
TestInfo == [date |-> "today", lab_name |-> ""]

NoData ==
  [has |-> FALSE, patient |-> NoPatient, test |-> TestInfo,
   blood_parameters |-> << >>, use_ai |-> FALSE]

\* The dictionary on_submit builds: raised = TRUE when resolving one of
\* the entered parameters raised (nothing is emitted then).  A record's
\* clinical_info is the catalog entry's own dictionary, shared by
\* reference: the field names the entry it belongs to.
build_data(f, catalog) ==
  LET values == get_values(f.inputs)
      gender == Lower(f.gender)
      resolved == [i \in DOMAIN values |->
                     resolve_range(catalog[values[i].name].ranges, gender)]
  IN  [raised |-> \E i \in DOMAIN values : resolved[i].raised,
       data |->
         [has |-> TRUE,
          patient |-> [first_name |-> f.first_name, last_name |-> f.last_name,
                       gender |-> f.gender, age |-> f.age],
          test |-> TestInfo,
          blood_parameters |->
            [i \in DOMAIN values |->
               [name |-> values[i].name,
                value |-> values[i].value,
                range |-> resolved[i].range,
                group |-> catalog[values[i].name].group,
                clinical_info |-> values[i].name]],
          use_ai |-> f.use_ai]]

\* ------------------------------------------------------------ initial values

\* The catalog entries as shipped.
Catalog ==
  [name \in FormNames |->
     [group |-> GroupOf(name),
      clinical_info |-> "shipped",
      ranges |-> CASE name = "Glucose" -> GlucoseRanges
                   [] name = "LDL" -> LdlRanges
                   [] OTHER -> IronRanges]]

ClearedForm ==
  [first_name |-> "", last_name |-> "", gender |-> "Select Gender", age |-> 0,
   inputs |-> [name \in FormNames |-> ""], use_ai |-> TRUE]

NoAnalysis ==
  [raised |-> FALSE, abnormal_count |-> 0, abnormal_parameters |-> << >>,
   critical_count |-> 0]

\* No 'ai_analysis' key in a dictionary, and no AI result.
NoAi == [has |-> FALSE, keys |-> {}]

NoCurrentData ==
  [has |-> FALSE, patient |-> NoPatient, test |-> TestInfo,
   blood_parameters |-> << >>, basic_analysis |-> NoAnalysis,
   ai_analysis |-> NoAi]

NoScreen == [rows |-> << >>, attention |-> << >>, ai_section |-> FALSE]

NotReported ==
  [called |-> FALSE, success |-> FALSE, chosen |-> "", filename |-> "",
   built |-> FALSE, error |-> "", attention |-> << >>, rows |-> << >>,
   ai_section |-> FALSE]

\* ------------------------------------------------------------ inputs

\* Names of the entries of a batch handed to update_results directly.
BatchNames == << "LDL", "Glucose", "Iron", "HDL" >>

\* Values an entry can carry: readings around the bounds 70 and 100 and
\* their 20% marks 56 and 120, a negative reading, non-finite floats, a
\* text that is no number, and no value at all.
Values ==
  {Num(0 - 1), Num(55), Num(56), Num(70), Num(100), Num(120), Num(121),
   NaN, PosInf, BadText, Absent}

\* Ranges an entry can carry: Glucose's and LDL's standard ranges, and
\* ranges with one or both bounds null.
Ranges ==
  {Bounds(70, 100), Bounds(0, 100), NoBounds,
   [min |-> None, max |-> Num(100)], [min |-> Num(70), max |-> None]}

Batches ==
  UNION {[1..n -> Values \X Ranges] : n \in 0..MaxEntries}

BatchData(batch) ==
  [has |-> TRUE,
   patient |-> [first_name |-> "Ann", last_name |-> "Lee", gender |-> "Female",
                age |-> 30],
   test |-> TestInfo,
   blood_parameters |->
     [i \in DOMAIN batch |->
        [name |-> BatchNames[i], value |-> batch[i][1], range |-> batch[i][2],
         group |-> GroupOf(BatchNames[i]), clinical_info |-> ""]],
   use_ai |-> FALSE]

\* What can be typed into the entry field of each parameter.
FieldTexts(name) ==
  CASE name = "Glucose" -> {"", "85"}
    [] name = "LDL" -> {"", "-1"}
    [] OTHER -> {"", " ", "abc", "85", " 85 ", "nan"}

Forms ==
  {f \in [first_name : {"", "Ann"}, last_name : {"", "Lee"},
          gender : {"Select Gender", "Male", "Female"},
          age : {0, 1, 5, 30, 70},
          inputs : [FormNames -> {"", " ", "abc", "85", " 85 ", "nan", "-1"}],
          use_ai : {FALSE}] :
     \A name \in FormNames : f.inputs[name] \in FieldTexts(name)}

\* ------------------------------------------------------------ AI analysis

\* The keys of the dictionary LlamaWrapper._process_response builds.
StructuredKeys ==
  {"summary", "abnormal_values", "implications", "recommendations",
   "followup_tests"}

AiResult(keys) == [has |-> TRUE, keys |-> keys]

\* How loading the tokenizer and the model from the hub can end, and how
\* the rest of analyze_blood_parameters can: an answer, an exception
\* inside the inference (caught), an exception outside of it (raised to
\* the caller).
Loads == {"loaded", "tokenizer failed", "model failed"}

Runs == {"answered", "inference failed", "raised"}

NotLoaded == [model |-> FALSE, tokenizer |-> FALSE]

Loaded == [model |-> TRUE, tokenizer |-> TRUE]

\* The try block of LlamaWrapper.load_model, past the two checks: the
\* tokenizer and the model are fetched with from_pretrained, assigned to
\* the wrapper and stored in the class cache; fetched tells that the
\* model was.
from_pretrained(w, cache, load) ==
  CASE load = "loaded" ->
         [ok |-> TRUE, wrapper |-> Loaded, cache |-> TRUE, fetched |-> TRUE]
    [] load = "model failed" ->
         [ok |-> FALSE, wrapper |-> [w EXCEPT !.tokenizer = TRUE],
          cache |-> cache, fetched |-> FALSE]
    [] OTHER -> [ok |-> FALSE, wrapper |-> w, cache |-> cache, fetched |-> FALSE]

\* LlamaWrapper.load_model: the returned flag, the wrapper and the class
\* cache afterwards.
wrapper_load_model(w, cache, load) ==
  IF w.model
    THEN [ok |-> TRUE, wrapper |-> w, cache |-> cache, fetched |-> FALSE]
  ELSE IF cache
    THEN [ok |-> TRUE, wrapper |-> Loaded, cache |-> cache, fetched |-> FALSE]
  ELSE from_pretrained(w, cache, load)

\* The rest of analyze_blood_parameters once the model is there or
\* load_model has returned: the keys of the dictionary it returns, or
\* raised = TRUE.
infer(l, run) ==
  IF ~l.ok
    THEN [raised |-> FALSE, keys |-> {"error"}, wrapper |-> l.wrapper,
          cache |-> l.cache, fetched |-> l.fetched]
  ELSE CASE run = "answered" ->
              [raised |-> FALSE, keys |-> StructuredKeys,
               wrapper |-> l.wrapper, cache |-> l.cache, fetched |-> l.fetched]
         [] run = "inference failed" ->
              [raised |-> FALSE, keys |-> {"error"},
               wrapper |-> l.wrapper, cache |-> l.cache, fetched |-> l.fetched]
         [] OTHER ->
              [raised |-> TRUE, keys |-> {}, wrapper |-> l.wrapper,
               cache |-> l.cache, fetched |-> l.fetched]

\* LlamaWrapper.analyze_blood_parameters
analyze_blood_parameters(w, cache, load, run) ==
  infer(IF w.model /\ w.tokenizer
          THEN [ok |-> TRUE, wrapper |-> w, cache |-> cache, fetched |-> FALSE]
          ELSE wrapper_load_model(w, cache, load),
        run)

\* AnalysisService.get_ai_analysis with the disclaimer left out of the
\* dictionary of the except branch.
get_ai_analysis_bare(w, cache, load, run) ==
  LET a == analyze_blood_parameters(w, cache, load, run)
  IN  [result |-> AiResult(IF a.raised THEN {"error", "summary"}
                                       ELSE a.keys \cup {"disclaimer"}),
       raised |-> a.raised, wrapper |-> a.wrapper, cache |-> a.cache,
       fetched |-> a.fetched]

\* AnalysisService.get_ai_analysis: the dictionary returned; raised tells
\* that it is the one of the except branch.
get_ai_analysis(w, cache, load, run) ==
  LET a == analyze_blood_parameters(w, cache, load, run)
  IN  [result |-> AiResult(IF a.raised THEN {"error", "summary", "disclaimer"}
                                       ELSE a.keys \cup {"disclaimer"}),
       raised |-> a.raised, wrapper |-> a.wrapper, cache |-> a.cache,
       fetched |-> a.fetched]

\* get_ai_analysis of a thread that is inside load_model, past the checks
\* of the wrapper and of the cache, when from_pretrained returns.
get_ai_analysis_loading(w, cache, load, run) ==
  LET a == infer(from_pretrained(w, cache, load), run)
  IN  [result |-> AiResult(IF a.raised THEN {"error", "summary", "disclaimer"}
                                       ELSE a.keys \cup {"disclaimer"}),
       raised |-> a.raised, wrapper |-> a.wrapper, cache |-> a.cache,
       fetched |-> a.fetched]

\* A ModelLoadThread: where it is ("running": started; "loading": inside
\* from_pretrained; "finished": finished was emitted; "done": its slot
\* has run), the data it was given, the result it emitted, how often it
\* emitted finished, and the progress dialog created with it ("open",
\* "hidden" by its Cancel button, "closed").
NoThread ==
  [state |-> "none", data |-> NoData, result |-> NoAi, raised |-> FALSE,
   emitted |-> 0, dialog |-> "none"]

ModelLoadThread(d) ==
  [state |-> "running", data |-> d, result |-> NoAi, raised |-> FALSE,
   emitted |-> 0, dialog |-> "open"]

\* MainWindow.ai_thread: the thread created last.
ai_thread == IF threads = << >> THEN NoThread ELSE threads[Len(threads)]

\* ------------------------------------------------------------ actions

\* ResultsView.update_results(d): d becomes current_data and is rendered:
\* the table, the attention list, and the AI section when d holds an AI
\* analysis that is not empty and reports no error.
render(d) ==
  [rows |-> add_blood_parameters(d.blood_parameters),
   attention |-> add_attention_section(d.blood_parameters),
   ai_section |-> /\ d.ai_analysis.has
                  /\ d.ai_analysis.keys # {}
                  /\ "error" \notin d.ai_analysis.keys]

\* The dictionary get_basic_analysis returned, as current_data.
Shown(basic_result) ==
  [has |-> TRUE, patient |-> basic_result.patient, test |-> basic_result.test,
   blood_parameters |-> basic_result.blood_parameters,
   basic_analysis |-> basic_result.basic_analysis, ai_analysis |-> NoAi]

\* What a call of get_basic_analysis is remembered by: its input, its
\* result, and what had happened in the session before it.
Call(d, basic_result) ==
  [input |-> d, result |-> basic_result,
   before |-> [ai |-> ai_thread.state, exported |-> report.called,
               model |-> wrapper.model]]

\* update_results starting the AI thread without displaying anything.
update_results_ai_first(d) ==
  LET basic_result == get_basic_analysis(d)
  IN  /\ calls' = Append(calls, Call(d, basic_result))
      /\ IF basic_result.raised
           THEN /\ error_box' = TRUE
                /\ UNCHANGED << current_data, screen, threads, ai_progress >>
           ELSE /\ IF d.use_ai
                     THEN /\ ai_progress' = "shown"
                          /\ threads' = Append(threads, ModelLoadThread(d))
                          /\ UNCHANGED << current_data, screen >>
                     ELSE /\ current_data' = Shown(basic_result)
                          /\ screen' = render(Shown(basic_result))
                          /\ UNCHANGED << threads, ai_progress >>
                /\ UNCHANGED error_box
      /\ UNCHANGED << model_vars, queued, ai_notice >>

\* update_results loading the model for the basic analysis.
update_results_loading(d) ==
  LET basic_result == get_basic_analysis(d)
  IN  /\ calls' = Append(calls, Call(d, basic_result))
      /\ IF basic_result.raised
           THEN /\ error_box' = TRUE
                /\ UNCHANGED << current_data, screen, threads, ai_progress >>
           ELSE /\ current_data' = Shown(basic_result)
                /\ screen' = render(Shown(basic_result))
                /\ IF d.use_ai
                     THEN /\ ai_progress' = "shown"
                          /\ threads' = Append(threads, ModelLoadThread(d))
                     ELSE UNCHANGED << threads, ai_progress >>
                /\ UNCHANGED error_box
      /\ wrapper' = Loaded
      /\ model_cache' = TRUE
      /\ model_loaded' = TRUE
      /\ UNCHANGED << loads, queued, ai_notice >>

\* MainWindow.update_results(d): the basic analysis, then the display,
\* then the AI thread if the preferences ask for it; an exception of the
\* analysis or of the display is caught and reported in a message box,
\* leaving the view as it was and starting no thread.
update_results(d) ==
  LET basic_result == get_basic_analysis(d)
  IN  /\ calls' = Append(calls, Call(d, basic_result))
      /\ IF basic_result.raised
           THEN /\ error_box' = TRUE
                /\ UNCHANGED << current_data, screen, threads, ai_progress >>
           ELSE /\ current_data' = Shown(basic_result)
                /\ screen' = render(Shown(basic_result))
                /\ IF d.use_ai
                     THEN /\ ai_progress' = "shown"
                          /\ threads' = Append(threads, ModelLoadThread(d))
                     ELSE UNCHANGED << threads, ai_progress >>
                /\ UNCHANGED error_box
      /\ UNCHANGED << model_vars, queued, ai_notice >>

\* An AI analysis is only asked for when the one before has delivered
\* its result.
ThreadFree(use_ai) == use_ai => ai_thread.state \in {"none", "done"}

\* update_results called with a dictionary from outside the form.
UpdateResults ==
  /\ data.has
  /\ budget > 0
  /\ budget' = budget - 1
  /\ delivered' = TRUE
  /\ update_results(data)
  /\ UNCHANGED << BLOOD_PARAMETERS, form, warning, data, report >>

\* InputForm.on_submit: validation, collection, range selection, and the
\* submitted signal, whose slot update_results runs before emit returns.
OnSubmit ==
  /\ budget > 0
  /\ budget' = budget - 1
  /\ IF ~validate_required_fields(form)
       THEN /\ warning' = "Required Fields Missing"
            /\ UNCHANGED << data, delivered, error_box, current_data, screen,
                            model_vars, ai_vars, calls >>
       ELSE LET built == build_data(form, BLOOD_PARAMETERS)
            IN  IF built.raised
                  THEN /\ warning' = "Error"
                       /\ UNCHANGED << data, delivered, error_box, current_data,
                                       screen, model_vars, ai_vars, calls >>
                  ELSE /\ data' = built.data
                       /\ delivered' = TRUE
                       /\ update_results(built.data)
                       /\ UNCHANGED warning
  /\ UNCHANGED << BLOOD_PARAMETERS, form, report >>

\* The outcome of one generate_report, as ResultsView keeps it.
Reported(r) ==
  [called |-> TRUE, success |-> r.success, chosen |-> r.chosen,
   filename |-> r.filename, built |-> r.built, error |-> r.error,
   attention |-> r.attention, rows |-> r.rows, ai_section |-> r.ai_section]

\* download_as_pdf writing a note into the clinical_info of the first
\* entry it reports, a dictionary the entry shares with the catalog.
DownloadAsPdf_annotating ==
  /\ current_data.has
  /\ ~report.called
  /\ \E chosen \in FileNames, build_ok \in BOOLEAN :
       report' = Reported(generate_report(current_data, chosen, build_ok))
  /\ LET shared == {i \in DOMAIN current_data.blood_parameters :
                      current_data.blood_parameters[i].clinical_info # ""}
     IN  IF shared = {}
           THEN UNCHANGED BLOOD_PARAMETERS
           ELSE LET i == CHOOSE j \in shared : \A k \in shared : j <= k
                    name == current_data.blood_parameters[i].clinical_info
                IN  BLOOD_PARAMETERS' =
                      [BLOOD_PARAMETERS EXCEPT ![name].clinical_info = "reported"]
  /\ UNCHANGED << form, warning, data, delivered, error_box, current_data,
                  screen, model_vars, ai_vars, calls, budget >>

\* ResultsView.download_as_pdf: a report of the displayed data, under the
\* file name the save dialog returns.
DownloadAsPdf ==
  /\ current_data.has
  /\ ~report.called
  /\ \E chosen \in FileNames, build_ok \in BOOLEAN :
       report' = Reported(generate_report(current_data, chosen, build_ok))
  /\ UNCHANGED << BLOOD_PARAMETERS, form, warning, data, delivered, error_box,
                  current_data, screen, model_vars, ai_vars, calls, budget >>

\* The thread has emitted finished with the dictionary r holds: the
\* signal is queued for the GUI thread.
Finished(thread, r) ==
  [thread EXCEPT !.state = "finished", !.result = r.result,
                 !.raised = r.raised, !.emitted = @ + 1]

\* run ending without a signal when the model call raised.
RunAiThread_silent ==
  /\ \E i \in DOMAIN threads, load \in Loads, run \in Runs :
       LET r == get_ai_analysis(wrapper, model_cache, load, run)
       IN  /\ threads[i].state = "running"
           /\ wrapper' = r.wrapper
           /\ model_cache' = r.cache
           /\ loads' = loads + (IF r.fetched THEN 1 ELSE 0)
           /\ threads' = [threads EXCEPT
                            ![i] = IF r.raised
                                     THEN [@ EXCEPT !.state = "lost"]
                                     ELSE Finished(@, r)]
           /\ queued' = IF r.raised THEN queued ELSE Append(queued, i)
  /\ UNCHANGED << BLOOD_PARAMETERS, form, warning, data, delivered, error_box,
                  current_data, screen, report, model_loaded, ai_progress,
                  ai_notice, calls, budget >>

\* ModelLoadThread.run in one piece: get_ai_analysis on the thread's
\* data, then the finished signal with its result.
RunAiThread ==
  /\ \E i \in DOMAIN threads, load \in Loads, run \in Runs :
       LET r == get_ai_analysis(wrapper, model_cache, load, run)
       IN  /\ threads[i].state = "running"
           /\ wrapper' = r.wrapper
           /\ model_cache' = r.cache
           /\ loads' = loads + (IF r.fetched THEN 1 ELSE 0)
           /\ threads' = [threads EXCEPT ![i] = Finished(@, r)]
           /\ queued' = Append(queued, i)
  /\ UNCHANGED << BLOOD_PARAMETERS, form, warning, data, delivered, error_box,
                  current_data, screen, report, model_loaded, ai_progress,
                  ai_notice, calls, budget >>

\* ModelLoadThread.run as far as from_pretrained: analyze_blood_parameters
\* finds no model in the wrapper, load_model finds none in the wrapper and
\* none in the class cache and starts to fetch it.
StartLoading ==
  /\ ~wrapper.model
  /\ ~model_cache
  /\ \E i \in DOMAIN threads :
       /\ threads[i].state = "running"
       /\ threads' = [threads EXCEPT ![i].state = "loading"]
  /\ UNCHANGED << BLOOD_PARAMETERS, form, warning, data, delivered, error_box,
                  current_data, screen, report, model_vars, queued,
                  ai_progress, ai_notice, calls, budget >>

\* ModelLoadThread.run from the return of from_pretrained on: the model
\* is assigned and cached, the analysis made, finished emitted.
FinishLoading ==
  /\ \E i \in DOMAIN threads, load \in Loads, run \in Runs :
       LET r == get_ai_analysis_loading(wrapper, model_cache, load, run)
       IN  /\ threads[i].state = "loading"
           /\ wrapper' = r.wrapper
           /\ model_cache' = r.cache
           /\ loads' = loads + (IF r.fetched THEN 1 ELSE 0)
           /\ threads' = [threads EXCEPT ![i] = Finished(@, r)]
           /\ queued' = Append(queued, i)
  /\ UNCHANGED << BLOOD_PARAMETERS, form, warning, data, delivered, error_box,
                  current_data, screen, report, model_loaded, ai_progress,
                  ai_notice, calls, budget >>

\* add_ai_analysis running the basic analysis again on what is displayed
\* and dropping the summary it had.
add_ai_analysis_resetting(ai_analysis) ==
  IF ~current_data.has
    THEN UNCHANGED << current_data, screen >>
    ELSE /\ current_data' = [current_data EXCEPT !.ai_analysis = ai_analysis,
                                                 !.basic_analysis = NoAnalysis]
         /\ screen' = render(current_data')

\* ResultsView.add_ai_analysis: the AI analysis is stored under the key
\* 'ai_analysis' of current_data, which is rendered again.
add_ai_analysis(ai_analysis) ==
  IF ~current_data.has
    THEN UNCHANGED << current_data, screen >>
    ELSE /\ current_data' = [current_data EXCEPT !.ai_analysis = ai_analysis]
         /\ screen' = render(current_data')

\* MainWindow.on_ai_analysis_complete, the slot of the finished signal
\* queued first: the progress dialog MainWindow.ai_progress refers to,
\* the one created last, is closed, an error is notified, and the result
\* is merged into the display.
OnAiAnalysisComplete ==
  /\ queued # << >>
  /\ LET i == Head(queued)
         last == Len(threads)
     IN  /\ threads' =
              [threads EXCEPT
                 ![i].state = "done",
                 ![last].dialog = IF ai_progress # "none" THEN "closed" ELSE @]
         /\ ai_notice' = (ai_notice \/ "error" \in threads[i].result.keys)
         /\ add_ai_analysis(threads[i].result)
  /\ queued' = Tail(queued)
  /\ ai_progress' = "none"
  /\ UNCHANGED << BLOOD_PARAMETERS, form, warning, data, delivered, error_box,
                  report, model_vars, calls, budget >>

\* The Cancel button of a progress dialog: the dialog is hidden; its
\* canceled signal is connected to nothing.
CancelAi ==
  /\ \E i \in DOMAIN threads :
       /\ threads[i].dialog = "open"
       /\ threads' = [threads EXCEPT ![i].dialog = "hidden"]
       /\ ai_progress' = IF i = Len(threads) /\ ai_progress = "shown"
                           THEN "cancelled" ELSE ai_progress
  /\ UNCHANGED << BLOOD_PARAMETERS, form, warning, data, delivered, error_box,
                  current_data, screen, report, model_vars, queued,
                  ai_notice, calls, budget >>

\* AnalysisService.load_model
LoadModel ==
  /\ ~model_loaded
  /\ \E load \in Loads :
       LET l == wrapper_load_model(wrapper, model_cache, load)
       IN  /\ model_loaded' = l.ok
           /\ wrapper' = l.wrapper
           /\ model_cache' = l.cache
           /\ loads' = loads + (IF l.fetched THEN 1 ELSE 0)
  /\ UNCHANGED << BLOOD_PARAMETERS, form, warning, data, delivered, error_box,
                  current_data, screen, report, ai_vars, calls, budget >>

\* LlamaWrapper.unload_model: a wrapper that holds a model drops it and
\* its tokenizer; the class cache is not touched.
UnloadModel ==
  /\ wrapper.model
  /\ wrapper' = NotLoaded
  /\ UNCHANGED << BLOOD_PARAMETERS, form, warning, data, delivered, error_box,
                  current_data, screen, report, model_loaded, model_cache,
                  loads, ai_vars, calls, budget >>

\* ------------------------------------------------------------ specifications

\* MainWindow.__init__: nothing submitted, displayed or reported yet, the
\* AnalysisService built with lazy loading, no AI thread.
StartUp ==
  /\ warning = ""
  /\ delivered = FALSE
  /\ error_box = FALSE
  /\ current_data = NoCurrentData
  /\ screen = NoScreen
  /\ report = NotReported
  /\ model_loaded = FALSE
  /\ wrapper = NotLoaded
  /\ model_cache = FALSE
  /\ threads = << >>
  /\ queued = << >>
  /\ loads = 0
  /\ ai_progress = "none"
  /\ ai_notice = FALSE
  /\ calls = << >>

\* The analysis pipeline on any batch of entries.
Init ==
  /\ StartUp
  /\ BLOOD_PARAMETERS = Catalog
  /\ form = ClearedForm
  /\ data \in {BatchData(b) : b \in Batches}
  /\ budget = 1

Next == UpdateResults \/ DownloadAsPdf

Spec == Init /\ [][Next]_vars

\* A submission of the entry form with the AI box unchecked, for any
\* definition of Iron's ranges.
InitForm ==
  /\ StartUp
  /\ BLOOD_PARAMETERS \in
       {[Catalog EXCEPT !["Iron"].ranges = shape] : shape \in RangeShapes}
  /\ form \in Forms
  /\ data = NoData
  /\ budget = 1

NextForm == OnSubmit \/ DownloadAsPdf

SpecForm == InitForm /\ [][NextForm]_vars

\* Batches of entries supplied in any order: up to MaxListed distinct
\* parameters of three categories, each with a reading inside or above
\* the range 70-100.
OrderNames == {"LDL", "HDL", "Glucose", "Calcium", "Iron"}

Listings ==
  UNION {{names \in [1..n -> OrderNames] :
            \A i, j \in 1..n : names[i] = names[j] => i = j} :
         n \in 0..MaxListed}

ListingData(names, values) ==
  [has |-> TRUE,
   patient |-> [first_name |-> "Ann", last_name |-> "Lee", gender |-> "Female",
                age |-> 30],
   test |-> TestInfo,
   blood_parameters |->
     [i \in DOMAIN names |->
        [name |-> names[i], value |-> values[i], range |-> Bounds(70, 100),
         group |-> GroupOf(names[i]), clinical_info |-> ""]],
   use_ai |-> FALSE]

InitOrder ==
  /\ StartUp
  /\ BLOOD_PARAMETERS = Catalog
  /\ form = ClearedForm
  /\ data \in {ListingData(names, values) :
                 names \in Listings, values \in [1..MaxListed -> {Num(85), Num(120)}]}
  /\ budget = 1

SpecOrder == InitOrder /\ [][Next]_vars

\* What the user has in the form during a session: a patient with or
\* without the gender chosen, a Glucose reading inside or above its
\* range, the AI box checked or not; and the forms that lack the first
\* name, the last name or the age.
SessionForms ==
  [first_name : {"Ann"}, last_name : {"Lee"},
   gender : {"Select Gender", "Female"}, age : {30},
   inputs : {[name \in FormNames |->
                IF name = "Glucose" THEN glucose ELSE ""] :
               glucose \in {"85", "150"}},
   use_ai : BOOLEAN]
  \cup
  {[first_name |-> IF missing = "first_name" THEN "" ELSE "Ann",
    last_name |-> IF missing = "last_name" THEN "" ELSE "Lee",
    gender |-> "Female",
    age |-> IF missing = "age" THEN 0 ELSE 30,
    inputs |-> [name \in FormNames |-> IF name = "Glucose" THEN "85" ELSE ""],
    use_ai |-> TRUE] :
     missing \in {"first_name", "last_name", "age"}}

\* The user changes the content of the form.
EditForm ==
  /\ budget > 0
  /\ form' \in SessionForms \ {form}
  /\ UNCHANGED << BLOOD_PARAMETERS, warning, data, delivered, error_box,
                  current_data, screen, report, model_vars, ai_vars, calls,
                  budget >>

\* A session of the application: submissions of the form with edits in
\* between, AI analyses, a PDF export, and the service's load_model.
InitSession ==
  /\ StartUp
  /\ BLOOD_PARAMETERS = Catalog
  /\ form \in SessionForms
  /\ data = NoData
  /\ budget = MaxSubmissions

NextSession ==
  \/ EditForm
  \/ ThreadFree(form.use_ai) /\ OnSubmit
  \/ DownloadAsPdf
  \/ RunAiThread
  \/ OnAiAnalysisComplete
  \/ CancelAi
  \/ LoadModel

SpecSession == InitSession /\ [][NextSession]_vars

\* A session in which the user also submits while AI analyses are under
\* way: every submission with the AI box checked starts a thread of its
\* own, the threads share the wrapper, a thread that has to fetch the
\* model stays inside from_pretrained while other steps are taken, and
\* the wrapper's unload_model is called.
NextThreads ==
  \/ EditForm
  \/ OnSubmit
  \/ RunAiThread
  \/ StartLoading
  \/ FinishLoading
  \/ OnAiAnalysisComplete
  \/ CancelAi
  \/ UnloadModel

SpecThreads == InitSession /\ [][NextThreads]_vars

\* Submissions of one form, one after the other or while AI analyses
\* are under way, when every model call returns and the GUI thread keeps
\* handling its events.
NextAnalyses ==
  \/ OnSubmit
  \/ RunAiThread
  \/ StartLoading
  \/ FinishLoading
  \/ OnAiAnalysisComplete

SpecAnalyses ==
  /\ InitSession
  /\ [][NextAnalyses]_vars
  /\ WF_vars(RunAiThread)
  /\ WF_vars(FinishLoading)
  /\ WF_vars(OnAiAnalysisComplete)

\* ------------------------------------------------------------ properties

\* The entries on display, and the status shown in the row of one.
Displayed == current_data.blood_parameters

ScreenStatus(name) ==
  LET i == CHOOSE j \in DOMAIN screen.rows : screen.rows[j].name = name
  IN  screen.rows[i].status

Listed(list, name) == \E i \in DOMAIN list : list[i].name = name

BreachStatuses == {"Low", "Very Low", "High", "Very High"}

\* C1: the summary's abnormal_count equals the number of entries whose
\* classification status is Low, Very Low, High or Very High.
C1_AbnormalCountIsBreachCount ==
  current_data.has =>
    current_data.basic_analysis.abnormal_count =
      Cardinality({i \in DOMAIN screen.rows :
                     screen.rows[i].status \in BreachStatuses})

\* C2: a batch with an entry whose value is no number is analysed without
\* an exception: the call returns, that entry is shown as Error and is
\* left out of the abnormal parameters, the others are analysed.
C2_BadValueDoesNotEscape ==
  (delivered /\ \E i \in DOMAIN data.blood_parameters :
                  data.blood_parameters[i].value = BadText) =>
    /\ ~error_box
    /\ current_data.has
    /\ \A i \in DOMAIN Displayed :
         Displayed[i].value = BadText =>
           /\ ScreenStatus(Displayed[i].name) = "Error"
           /\ ~Listed(current_data.basic_analysis.abnormal_parameters,
                      Displayed[i].name)

\* C3: an entry with min = 0 and a value below 0 is given the status
\* No range on screen, and the report is not lost to a division by zero.
ZeroMinNegative(param) ==
  /\ param.range.min = Num(0)
  /\ param.range.max.k = "num"
  /\ param.value.k = "num"
  /\ param.value.n < 0

C3_ZeroBoundIsNoRange ==
  current_data.has =>
    \A i \in DOMAIN Displayed :
      ZeroMinNegative(Displayed[i]) =>
        /\ ScreenStatus(Displayed[i].name) = "No range"
        /\ report.error # "float division by zero"

\* C4: with positive bounds, a value below min is Very Low exactly when
\* (min - value) * 100 > 20 * min and Low otherwise, and a value above
\* max is Very High exactly when (value - max) * 100 > 20 * max and High
\* otherwise; exactly 20% is Low or High.
PositiveBounds(param) ==
  /\ param.range.min.k = "num" /\ param.range.min.n > 0
  /\ param.range.max.k = "num" /\ param.range.max.n > 0

C4_ThresholdIsStrict ==
  current_data.has =>
    \A i \in DOMAIN Displayed :
      LET e == Displayed[i]
          st == ScreenStatus(e.name)
      IN  (e.value.k = "num" /\ PositiveBounds(e)) =>
            /\ e.value.n < e.range.min.n =>
                 IF (e.range.min.n - e.value.n) * 100 > 20 * e.range.min.n
                   THEN st = "Very Low" ELSE st = "Low"
            /\ e.value.n > e.range.max.n =>
                 IF (e.value.n - e.range.max.n) * 100 > 20 * e.range.max.n
                   THEN st = "Very High" ELSE st = "High"

\* C4 witness: an entry exactly 20% below its minimum is on display as
\* Low, next to one exactly 20% above its maximum, shown as High.
C4_Witness ==
  /\ current_data.has
  /\ \E i \in DOMAIN Displayed :
       /\ Displayed[i].value.k = "num" /\ PositiveBounds(Displayed[i])
       /\ (Displayed[i].range.min.n - Displayed[i].value.n) * 100
            = 20 * Displayed[i].range.min.n
       /\ ScreenStatus(Displayed[i].name) = "Low"
  /\ \E i \in DOMAIN Displayed :
       /\ Displayed[i].value.k = "num" /\ PositiveBounds(Displayed[i])
       /\ (Displayed[i].value.n - Displayed[i].range.max.n) * 100
            = 20 * Displayed[i].range.max.n
       /\ ScreenStatus(Displayed[i].name) = "High"

\* C5: for a number and a range with min < max, the status is Normal
\* exactly when min <= value <= max.
OrderedBounds(param) ==
  /\ param.range.min.k = "num"
  /\ param.range.max.k = "num"
  /\ param.range.min.n < param.range.max.n

NullBound(param) == param.range.min.k = "none" \/ param.range.max.k = "none"

C6_NullRangeIsNeverAbnormal ==
  current_data.has =>
    \A i \in DOMAIN Displayed :
      NullBound(Displayed[i]) =>
        /\ get_status_and_color(Displayed[i].value, Displayed[i].range).status
             = "No range"
        /\ ~Listed(current_data.basic_analysis.abnormal_parameters,
                   Displayed[i].name)
        /\ ~Listed(screen.attention, Displayed[i].name)
        /\ ~Listed(report.attention, Displayed[i].name)

\* ------------------------------------------------------------ resolver properties

\* The age bucket of a patient: newborn up to 1, child up to 12, elderly
\* from 65, adult otherwise; a table that keys the bucket by gender as
\* well ("adult_male") is read under that key.
Bucket(age) ==
  IF age <= 1 THEN "newborn"
  ELSE IF age <= 12 THEN "child"
  ELSE IF age >= 65 THEN "elderly"
  ELSE "adult"

BucketByGender(age, gender) ==
  CASE Bucket(age) = "adult" /\ gender = "male" -> "adult_male"
    [] Bucket(age) = "adult" /\ gender = "female" -> "adult_female"
    [] OTHER -> Bucket(age)

AgeKey(ranges, age, gender) ==
  IF BucketByGender(age, gender) \in DOMAIN ranges.age_specific.table
    THEN BucketByGender(age, gender)
    ELSE Bucket(age)

AgeMatches(ranges, age, gender) ==
  /\ ranges.age_specific.has
  /\ AgeKey(ranges, age, gender) \in DOMAIN ranges.age_specific.table

AgeRange(ranges, age, gender) ==
  ranges.age_specific.table[AgeKey(ranges, age, gender)]

Submitted == data.blood_parameters

RangesOf(name) == BLOOD_PARAMETERS[name].ranges

PatientGender == Lower(data.patient.gender)

C8_AgeBucketIsAttached ==
  data.has =>
    \A i \in DOMAIN Submitted :
      LET r == RangesOf(Submitted[i].name)
      IN  AgeMatches(r, data.patient.age, PatientGender)
            => Submitted[i].range = AgeRange(r, data.patient.age, PatientGender)

\* C9: a definition whose only range source is standard resolves to the
\* standard min and max, for every gender and age.
OnlyStandard(ranges) ==
  /\ ranges.standard.has
  /\ ~ranges.gender_specific.has
  /\ ~ranges.age_specific.has
  /\ ranges.base.kind = "absent"

C9_StandardFallback ==
  data.has =>
    \A i \in DOMAIN Submitted :
      OnlyStandard(RangesOf(Submitted[i].name))
        => Submitted[i].range = RangesOf(Submitted[i].name).standard.range

\* C9 witness: an entry of a standard-only definition was submitted.
C9_Witness ==
  /\ data.has
  /\ \E i \in DOMAIN Submitted :
       /\ OnlyStandard(RangesOf(Submitted[i].name))
       /\ Submitted[i].range = Bounds(60, 170)

\* C10: the range attached to an entry is never taken from the other
\* gender's entry of a gender-keyed table: it is a range the definition
\* holds for the patient (standard, or the patient's own gender), or
\* [null, null].
OwnRanges(ranges, gender) ==
  {NoBounds}
    \cup (IF ranges.standard.has THEN {ranges.standard.range} ELSE {})
    \cup (IF ranges.gender_specific.has /\ InTable(ranges.gender_specific, gender)
            THEN {Lookup(ranges.gender_specific, gender)} ELSE {})
    \cup (IF ranges.base.kind = "table" /\ InTable(ranges.base, gender)
            THEN {Lookup(ranges.base, gender)} ELSE {})

NumericVerdicts == {"Normal", "Low", "High", "Very Low", "Very High"}

\* C11: an entry whose value is no finite number (nan and the infinities
\* included) is never given a numeric verdict: its status is not Normal,
\* Low, High, Very Low or Very High.
C11_NonFiniteHasNoVerdict ==
  current_data.has =>
    \A i \in DOMAIN Displayed :
      Displayed[i].value.k # "num"
        => ScreenStatus(Displayed[i].name) \notin NumericVerdicts

\* The texts of an entry field that read as a number, surrounding blanks
\* aside.
ParsesAsNumber(text) == text \in {"85", " 85 ", "-1", "nan"}

NamesOf(list) == {list[i].name : i \in DOMAIN list}

\* C12: after a submission that passed validation, the result set holds
\* exactly one record for each parameter whose field reads as a number
\* and none for the others, the summary names only submitted entries,
\* and a field that is empty or unreadable does not abort the submission.
C12_OneRecordPerEnteredNumber ==
  /\ delivered =>
        /\ NamesOf(data.blood_parameters)
             = {name \in FormNames : ParsesAsNumber(form.inputs[name])}
        /\ \A i, j \in DOMAIN data.blood_parameters :
             data.blood_parameters[i].name = data.blood_parameters[j].name
               => i = j
        /\ current_data.has
        /\ NamesOf(current_data.basic_analysis.abnormal_parameters)
             \subseteq NamesOf(data.blood_parameters)
  /\ warning = "Error" =>
        \E name \in FormNames :
          /\ ParsesAsNumber(form.inputs[name])
          /\ resolve_range(BLOOD_PARAMETERS[name].ranges, Lower(form.gender)).raised

\* C12 witness: a submission went through with one field holding a
\* number between blanks, one left empty and one holding a text that is
\* no number.
C12_Witness ==
  /\ delivered
  /\ \E a, b \in FormNames :
       /\ form.inputs[a] = ""
       /\ form.inputs[b] = "85"
       /\ form.inputs["Iron"] \in {"abc", " 85 "}
       /\ NamesOf(data.blood_parameters)
            = {name \in FormNames : ParsesAsNumber(form.inputs[name])}

\* ------------------------------------------------------------ display properties

\* Alphabetical order of the category names and of the parameter names.
GroupsInOrder ==
  << "Basic Metabolic", "CBC", "Lipid Panel", "Vitamins & Minerals" >>

NamesInOrder ==
  << "Calcium", "Glucose", "HDL", "Hematocrit", "Hemoglobin", "Iron", "LDL",
     "Platelets", "RBC", "Total Cholesterol", "Vitamin B12", "Vitamin D",
     "WBC" >>

Position(seq, x) == CHOOSE i \in DOMAIN seq : seq[i] = x

ListedBefore(a, b) ==
  \/ Position(GroupsInOrder, GroupOf(a)) < Position(GroupsInOrder, GroupOf(b))
  \/ /\ GroupOf(a) = GroupOf(b)
     /\ Position(NamesInOrder, a) < Position(NamesInOrder, b)

RowNames(rows) == [i \in DOMAIN rows |-> rows[i].name]

\* C13: the rows of the on-screen table are the displayed entries, each
\* once, categories in ascending alphabetical order and names in
\* ascending alphabetical order within a category, whatever the order of
\* the entries supplied; the rows of the PDF table come in the same order.
C13_RowsAreSorted ==
  current_data.has =>
    /\ Len(screen.rows) = Len(Displayed)
    /\ NamesOf(screen.rows) = NamesOf(Displayed)
    /\ \A i, j \in DOMAIN screen.rows :
         i < j => ListedBefore(screen.rows[i].name, screen.rows[j].name)
    /\ report.built => RowNames(report.rows) = RowNames(screen.rows)

\* C13 witness: three entries supplied with a later category first and,
\* within a category, a later name first, are on display and in the PDF.
C13_Witness ==
  /\ current_data.has
  /\ report.built
  /\ Len(Displayed) = 3
  /\ \E i, j \in DOMAIN Displayed :
       /\ i < j
       /\ GroupOf(Displayed[i].name) = GroupOf(Displayed[j].name)
       /\ ListedBefore(Displayed[j].name, Displayed[i].name)
  /\ \E i, j \in DOMAIN Displayed :
       /\ i < j
       /\ GroupOf(Displayed[i].name) # GroupOf(Displayed[j].name)
       /\ ListedBefore(Displayed[j].name, Displayed[i].name)
  /\ RowNames(report.rows) = RowNames(screen.rows)

\* ------------------------------------------------------------ session properties

LastCall == calls'[Len(calls')]

\* A step in which get_basic_analysis was called, and one in which an AI
\* thread was started.
Analysed == Len(calls') > Len(calls)

ThreadStarted == Len(threads') > Len(threads)

\* C15: every submission whose basic analysis returns puts the classified
\* results on display, with or without an AI analysis, and an AI thread
\* is only started in a step that has displayed the results of the data
\* the thread works on; thread steps never take the display away.
C15_ResultsShownWithoutAi ==
  [][/\ (Analysed /\ ~LastCall.result.raised) =>
          /\ current_data' = Shown(LastCall.result)
          /\ current_data'.blood_parameters = LastCall.input.blood_parameters
          /\ screen'.rows = add_blood_parameters(LastCall.input.blood_parameters)
     /\ ThreadStarted =>
          /\ Analysed
          /\ ~LastCall.result.raised
          /\ ai_thread'.data = LastCall.input
     /\ (current_data.has /\ ~Analysed) =>
          /\ current_data'.has
          /\ screen'.rows = screen.rows]_vars

\* C15 witness: the classified results of a submission are on display
\* while its AI thread has not run yet, and no AI analysis was ever
\* merged.
C15_Witness ==
  /\ ai_thread.state = "running"
  /\ Len(calls) = 1
  /\ current_data.has
  /\ current_data.blood_parameters = ai_thread.data.blood_parameters
  /\ current_data.ai_analysis = NoAi
  /\ Len(screen.rows) > 0

\* C16: a step of the AI analysis (the thread's run, the merge of its
\* result, failed or not, the Cancel button) leaves the patient, test,
\* blood_parameters and basic_analysis entries of the displayed data, the
\* table and the attention list as they were.
C16_AiLeavesResultsAlone ==
  [][((threads' # threads \/ ai_progress' # ai_progress) /\ ~Analysed) =>
       /\ current_data'.has = current_data.has
       /\ current_data'.patient = current_data.patient
       /\ current_data'.test = current_data.test
       /\ current_data'.blood_parameters = current_data.blood_parameters
       /\ current_data'.basic_analysis = current_data.basic_analysis
       /\ screen'.rows = screen.rows
       /\ screen'.attention = screen.attention]_vars

\* C16 witness: a failed AI analysis was merged into a display that holds
\* an abnormal parameter.
C16_Witness ==
  /\ ai_thread.state = "done"
  /\ current_data.has
  /\ current_data.ai_analysis = ai_thread.result
  /\ "error" \in current_data.ai_analysis.keys
  /\ current_data.basic_analysis.abnormal_count > 0
  /\ Len(screen.attention) > 0

\* C17: the summary's critical_count equals the number of entries whose
\* classification status is Very Low or Very High.
C17_CriticalCountIsVeryCount ==
  current_data.has =>
    current_data.basic_analysis.critical_count =
      Cardinality({i \in DOMAIN screen.rows :
                     screen.rows[i].status \in {"Very Low", "Very High"}})

\* C18: no step changes the catalog, whose clinical_info dictionaries the
\* submitted records share.
C18_CatalogIsReadOnly == [][BLOOD_PARAMETERS' = BLOOD_PARAMETERS]_vars

\* C18 witness: after two submissions, an AI merge and a PDF export, with
\* records on display that share the catalog's clinical_info, the catalog
\* is as shipped.
C18_Witness ==
  /\ Len(calls) = 2
  /\ ai_thread.state = "done"
  /\ current_data.ai_analysis.has
  /\ report.called
  /\ \E i \in DOMAIN current_data.blood_parameters :
       current_data.blood_parameters[i].clinical_info
         \in DOMAIN BLOOD_PARAMETERS
  /\ BLOOD_PARAMETERS = Catalog

\* C19: a step that calls get_basic_analysis leaves model_loaded, the
\* wrapper's model and tokenizer and the class cache unchanged, and these
\* only change in a step of load_model or of the thread that runs
\* get_ai_analysis.
C19_BasicAnalysisLoadsNothing ==
  [][/\ Analysed => UNCHANGED model_vars
     /\ model_vars' # model_vars => (LoadModel \/ RunAiThread)]_vars

\* C19 witness: the basic analysis ran once before and once after
\* get_ai_analysis loaded the model, and model_loaded is still False.
C19_Witness ==
  /\ Len(calls) = 2
  /\ ~calls[1].before.model
  /\ calls[2].before.model
  /\ wrapper = Loaded
  /\ model_cache
  /\ ~model_loaded

\* C20: the dictionary get_ai_analysis returns always holds a disclaimer,
\* and an error as well when the model call raised.
C20_AiResultHasDisclaimer ==
  ai_thread.state \in {"finished", "done"} =>
    /\ ai_thread.result.has
    /\ "disclaimer" \in ai_thread.result.keys
    /\ ai_thread.raised => "error" \in ai_thread.result.keys

\* C20 witness: the model call raised and the thread delivered the
\* dictionary of the except branch.
C20_Witness ==
  /\ ai_thread.state = "finished"
  /\ ai_thread.raised
  /\ ai_thread.result.keys = {"error", "summary", "disclaimer"}

\* ------------------------------------------------------------ report properties

\* C22: generate_report returns True only if the document was built; a
\* cancelled save dialog gives False and no document; an exception while
\* the report is built (a failing doc.build, a division by a zero bound)
\* gives False; and a chosen file name without the .pdf suffix gets it.
\* This holds of the report that was made and of every report that could
\* be made of the data on display.
C22_ReportOutcome ==
  /\ report.called =>
       /\ report.success <=> report.built
       /\ report.chosen = "" => ~report.success /\ report.filename = ""
       /\ report.error # "" => ~report.success
       /\ report.chosen # "" => EndsWithPdf(report.filename)
  /\ current_data.has =>
       \A chosen \in FileNames, build_ok \in BOOLEAN :
         LET r == generate_report(current_data, chosen, build_ok)
         IN  /\ r.success <=> r.built
             /\ r.success => (chosen # "" /\ build_ok /\ r.error = "")
             /\ chosen = "" => r.filename = ""
             /\ chosen # "" => EndsWithPdf(r.filename)

\* C22 witness: doc.build failed for a file name chosen without the
\* suffix: the report has the suffixed name and was not built.
C22_Witness ==
  /\ report.called
  /\ report.chosen = "report"
  /\ report.filename = "report.pdf"
  /\ report.error = "build failed"
  /\ ~report.success

\* ------------------------------------------------------------ submission properties

\* Every required field of the form is filled.
RequiredFieldsFilled ==
  /\ form.first_name # ""
  /\ form.last_name # ""
  /\ form.gender # "Select Gender"
  /\ form.age # 0

\* A step of on_submit.
Submits == budget' < budget

\* C24: on_submit emits submitted, and so hands a dictionary to
\* update_results and has it analysed, only when the first name, the last
\* name, the gender and the age are filled; a submission that fails the
\* validation warns, emits nothing and leaves what was displayed, and the
\* AI analysis under way, as they were.
C24_SubmitNeedsRequiredFields ==
  [][/\ (data' # data \/ delivered' # delivered \/ Analysed) =>
          (Submits /\ RequiredFieldsFilled)
     /\ (Submits /\ ~RequiredFieldsFilled) =>
          /\ warning' = "Required Fields Missing"
          /\ UNCHANGED << data, delivered, error_box, current_data, screen,
                          calls, ai_vars, model_vars >>]_vars

\* C24 witness: results with an abnormal reading are on display, and a
\* second submission, of a form without the age, was refused.
C24_Witness ==
  /\ budget = 0
  /\ form.age = 0
  /\ form.first_name # ""
  /\ form.last_name # ""
  /\ form.gender # "Select Gender"
  /\ warning = "Required Fields Missing"
  /\ Len(calls) = 1
  /\ current_data.has
  /\ Len(screen.attention) > 0

\* C28: the status of every entry in the on-screen table equals the status
\* in the parameter table of the PDF report, and a report of what is on
\* display is produced whenever a file name was chosen and the document
\* could be written.
C28_ScreenAndReportAgree ==
  (current_data.has /\ report.called /\ report.chosen # ""
     /\ report.error # "build failed") =>
    /\ report.success
    /\ Len(report.rows) = Len(screen.rows)
    /\ \A i \in DOMAIN screen.rows :
         /\ report.rows[i].name = screen.rows[i].name
         /\ report.rows[i].status = screen.rows[i].status

\* The AI analysis on display holds an 'error' entry.
AiErrorDisplayed == "error" \in current_data.ai_analysis.keys

\* C29: while the displayed data holds an AI analysis with an 'error'
\* entry, the screen shows no "AI Analysis & Recommendations" section, and
\* a PDF report generated from that data has none either.
C29_AiErrorIsNotRendered ==
  /\ [](AiErrorDisplayed => ~screen.ai_section)
  /\ [][(report' # report /\ AiErrorDisplayed) => ~report'.ai_section]_vars

\* ------------------------------------------------------------ model properties

\* A step of unload_model on a wrapper that holds a model.
Unloads == wrapper.model /\ ~wrapper'.model

\* C21: after unload_model the wrapper's model and tokenizer are None and
\* nothing of the wrapper refers to the model any more, the class cache
\* included; a later load_model has to fetch the model again.
C21_UnloadReleasesModel ==
  [][/\ Unloads => (wrapper' = NotLoaded /\ ~model_cache')
     /\ (~wrapper.model /\ wrapper'.model) => loads' = loads + 1]_vars

\* C27: whatever the interleaving of the AI threads, from_pretrained
\* returns the model at most once in the life of the process; every
\* later load takes it from the class cache.
C27_ModelLoadedOnce == loads <= 1

\* ------------------------------------------------------------ thread properties

\* An AI thread that update_results has started and whose slot has not
\* run yet.
InFlight(thread) == thread.state \in {"running", "loading", "finished"}

\* C26: MainWindow.ai_progress refers to a dialog exactly while a started
\* AI thread has not completed; the dialog of a thread that has completed
\* is closed; and no dialog is closed while its own thread has not
\* completed.
C26_DialogTracksThread ==
  /\ ai_progress # "none" <=> \E i \in DOMAIN threads : InFlight(threads[i])
  /\ \A i \in DOMAIN threads :
       threads[i].dialog = "closed" <=> threads[i].state = "done"

\* The data of a thread are those of the submission on display after the
\* step.
OfDisplayed(thread) ==
  /\ thread.data.patient = current_data'.patient
  /\ thread.data.blood_parameters = current_data'.blood_parameters

\* C25: an AI analysis is only merged into the displayed data of the
\* submission it was computed from: in every step in which the slot of a
\* thread stores its result under 'ai_analysis', the patient and the
\* blood parameters on display are the ones that thread was given.
C25_AiBelongsToDisplayed ==
  [][\A i \in DOMAIN threads :
       (threads[i].state = "finished" /\ threads'[i].state = "done"
          /\ current_data'.ai_analysis.has) =>
         OfDisplayed(threads[i])]_vars

\* How often thread i stands in the queue of finished signals.
TimesQueued(i) == Cardinality({k \in DOMAIN queued : queued[k] = i})

\* C23: every AI thread that was started emits finished exactly once,
\* with a dictionary (the analysis or one with an 'error' entry), when
\* its model call returns; the signal is handled once; and
\* on_ai_analysis_complete eventually runs for every thread started.
C23_EveryThreadCompletes ==
  /\ [](\A i \in DOMAIN threads :
          /\ threads[i].state \in {"running", "loading", "finished", "done"}
          /\ threads[i].emitted =
               (IF threads[i].state \in {"finished", "done"} THEN 1 ELSE 0)
          /\ TimesQueued(i) = (IF threads[i].state = "finished" THEN 1 ELSE 0)
          /\ threads[i].state \in {"finished", "done"} =>
               /\ threads[i].result.has
               /\ \/ "error" \in threads[i].result.keys
                  \/ StructuredKeys \subseteq threads[i].result.keys)
  /\ \A i \in 1..(MaxSubmissions + 1) :
       (Len(threads) >= i) ~> (Len(threads) >= i /\ threads[i].state = "done")

\* C23 witness: two AI threads ran at the same time, the second started
\* before the first had finished, and the slot has run for both: the
\* first to finish closed the dialog of the other.
C23_Witness ==
  /\ Len(threads) = 2
  /\ threads[1].state = "done"
  /\ threads[2].state = "done"
  /\ threads[1].dialog = "open"
  /\ threads[2].dialog = "closed"

====
